---- MODULE Spec2Model ----
(***************************************************************************)
(* Model of dashboard_vacinacao.py: one run of the Streamlit script.       *)
(* The script reads a CSV of vaccination records, applies the sidebar      *)
(* filters in cascade and draws KPIs and charts from the filtered frame.   *)
(*                                                                         *)
(* Values.  A categorical cell is the code of its value in the column's    *)
(* sorted vocabulary (1, 2, ...), NaN for a missing cell.  A calendar date *)
(* is its day number counted from 2024-01-01 = 1; a Timestamp is a number  *)
(* of hours.  The text of a date cell is d for "d/03/2025" and 0 for a     *)
(* text that does not match '%d/%m/%Y'.  The text of an age cell is a      *)
(* sequence of characters: 0..9 are the digits, Letter any other one.      *)
(* The widgets are the environment: a multiselect returns any subset of    *)
(* its options, date_input a tuple of 0, 1 or 2 dates within its limits,   *)
(* the slider a pair lo <= hi within its limits.                           *)
(***************************************************************************)
EXTENDS Integers, Sequences, FiniteSets, TLC

\* ------------------------------------------------------------ bounds
MaxRows == 2
MaxRowsDate == 3
MaxDay == 5
NFab == 11
MaxPerFab == 2
FmtSpan == 60

\* ------------------------------------------------- program constants
NaN == -1
NaT == 0
Letter == 10
HoursPerDay == 24
March1 == 426
DefaultMin == 1
DefaultMax == 731
Million == 1000000
TopN == 10

VARIABLES
  file_found,       \* whether read_csv finds the file
  csv,              \* the rows of the file, as text
  observed,         \* groupby's default for `observed`, which differs between pandas
                    \* versions; fixed when the first groupby reads it
  pc,               \* position of the script
  outcome,          \* how the run ended: "" while it runs
  df,               \* the frame load_data returns
  min_date, max_date, warned,
  date_range,
  df_filtered,
  options,          \* the option list offered by each multiselect
  selected,         \* the selection each multiselect returned
  idade_range,
  total_doses, total_estados, total_fabricantes,
  metric_total,
  df_uf_doses, df_raca_doses, df_sexo_doses, df_fabricante_doses

vars == <<file_found, csv, observed, pc, outcome, df, min_date, max_date, warned,
          date_range, df_filtered, options, selected, idade_range,
          total_doses, total_estados, total_fabricantes, metric_total,
          df_uf_doses, df_raca_doses, df_sexo_doses, df_fabricante_doses>>

\* The filterable categorical columns, in the order of the sidebar.
Dims == <<"tp_sexo_paciente", "no_raca_cor_paciente", "sg_uf_estabelecimento", "ds_vacina">>

\* ------------------------------------------------------------ helpers
Range(s) == {s[i] : i \in DOMAIN s}

RECURSIVE SelectSeq2(_, _, _)
\* s[keep], in the order of s: boolean-mask indexing df[mask]
SelectSeq2(s, keep, i) ==
  IF i > Len(s) THEN <<>>
  ELSE (IF i \in keep THEN <<s[i]>> ELSE <<>>) \o SelectSeq2(s, keep, i + 1)

Mask(s, keep) == SelectSeq2(s, keep, 1)

SetMin(S) == CHOOSE x \in S : \A y \in S : x <= y
SetMax(S) == CHOOSE x \in S : \A y \in S : x >= y

\* -------------------------------------------------------- load_data
\* pd.to_datetime(text, format='%d/%m/%Y', errors='coerce')
ToDatetime(text) ==
  IF text \in 1..31 THEN (March1 - 1 + text) * HoursPerDay ELSE NaT

RECURSIVE Decimal(_)
Decimal(text) ==
  IF Len(text) = 0 THEN 0
  ELSE 10 * Decimal(SubSeq(text, 1, Len(text) - 1)) + text[Len(text)]

\* pd.to_numeric(text, errors='coerce'): NaN for an empty cell or a text with a
\* character that is no digit
ToNumeric(text) ==
  IF Len(text) = 0 \/ \E i \in DOMAIN text : text[i] \notin 0..9 THEN NaN
  ELSE Decimal(text)

\* FillNa0 without the fillna
FillNa0_Missing(x) == x

\* .fillna(0).astype(int)
FillNa0(x) == IF x = NaN THEN 0 ELSE x

\* One row of the frame after the preprocessing; index is the row's label, which
\* dropna keeps.
LoadRow(raw, i) ==
  [index |-> i,
   dt_vacina |-> ToDatetime(raw.dt_vacina),
   tp_sexo_paciente |-> raw.tp_sexo_paciente,
   no_raca_cor_paciente |-> raw.no_raca_cor_paciente,
   sg_uf_estabelecimento |-> raw.sg_uf_estabelecimento,
   ds_vacina |-> raw.ds_vacina,
   ds_vacina_fabricante |-> raw.ds_vacina_fabricante,
   nu_idade_paciente |-> FillNa0(ToNumeric(raw.nu_idade_paciente)),
   Dose |-> 1]

\* df.dropna(subset=['dt_vacina'])
DropNaT(rows) == Mask(rows, {i \in DOMAIN rows : rows[i].dt_vacina # NaT})

load_data(file) == DropNaT([i \in DOMAIN file |-> LoadRow(file[i], i)])

\* ------------------------------------------------------------ filters
\* Timestamp.date(), Series.dt.date
Date(ts) == ts \div HoursPerDay

\* DateMask with the start date left out of the interval
DateMask_Exclusive(rows, start_date, end_date) ==
  {i \in DOMAIN rows : Date(rows[i].dt_vacina) > start_date
                       /\ Date(rows[i].dt_vacina) <= end_date}

\* (df['dt_vacina'].dt.date >= start_date) & (df['dt_vacina'].dt.date <= end_date)
DateMask(rows, start_date, end_date) ==
  {i \in DOMAIN rows : Date(rows[i].dt_vacina) >= start_date
                       /\ Date(rows[i].dt_vacina) <= end_date}

\* DateFilter that takes a single date as the start of the interval
DateFilter_Single(rows, range) ==
  IF Len(range) = 2 THEN Mask(rows, DateMask(rows, range[1], range[2]))
  ELSE IF Len(range) = 1 THEN Mask(rows, DateMask(rows, range[1], DefaultMax))
  ELSE rows

\* lines 114-119
DateFilter(rows, range) ==
  IF Len(range) = 2 THEN Mask(rows, DateMask(rows, range[1], range[2]))
  ELSE rows

\* Series.unique()
Unique(rows, col) == {rows[i][col] : i \in DOMAIN rows}

\* IsIn that takes an empty selection for "no filter"
IsIn_EmptyIsAll(rows, col, sel) ==
  IF sel = {} THEN rows ELSE Mask(rows, {i \in DOMAIN rows : rows[i][col] \in sel})

\* df[df[col].isin(sel)]
IsIn(rows, col, sel) == Mask(rows, {i \in DOMAIN rows : rows[i][col] \in sel})

\* (df['nu_idade_paciente'] >= lo) & (df['nu_idade_paciente'] <= hi)
IdadeFilter(rows, range) ==
  Mask(rows, {i \in DOMAIN rows : rows[i].nu_idade_paciente >= range[1]
                                  /\ rows[i].nu_idade_paciente <= range[2]})

\* ------------------------------------------------------- aggregations
\* astype('category'): the categories of a column are its values in df, NaN left out
Categories(rows, col) == Unique(rows, col) \ {NaN}

RECURSIVE SortedKeys(_)
\* the group keys in ascending order (groupby sorts its keys)
SortedKeys(S) ==
  IF S = {} THEN <<>> ELSE <<SetMin(S)>> \o SortedKeys(S \ {SetMin(S)})

RECURSIVE SumDose(_, _, _, _)
\* ['Dose'].sum() over the rows of one group
SumDose(rows, col, key, i) ==
  IF i > Len(rows) THEN 0
  ELSE (IF rows[i][col] = key THEN rows[i].Dose ELSE 0) + SumDose(rows, col, key, i + 1)

\* The keys groupby makes groups for.  A NaN key makes no group (dropna=True); with
\* observed=False every category of the column has a group, also one with no row.
GroupKeys(rows, col, cats, obs) ==
  IF obs THEN Unique(rows, col) \ {NaN} ELSE cats

\* df.groupby(col)['Dose'].sum().reset_index()
GroupBy(rows, col, cats, obs) ==
  LET keys == SortedKeys(GroupKeys(rows, col, cats, obs))
  IN [k \in DOMAIN keys |-> [key |-> keys[k], Dose |-> SumDose(rows, col, keys[k], 1)]]

RECURSIVE SortDesc(_)
\* sort_values(by='Dose', ascending=False): rows of equal Dose keep their order
SortDesc(tbl) ==
  IF Len(tbl) = 0 THEN <<>>
  ELSE LET top == SetMax({tbl[i].Dose : i \in DOMAIN tbl})
           j == SetMin({i \in DOMAIN tbl : tbl[i].Dose = top})
       IN <<tbl[j]>> \o SortDesc(Mask(tbl, DOMAIN tbl \ {j}))

\* .head(n)
HeadN(tbl, n) == SubSeq(tbl, 1, IF Len(tbl) < n THEN Len(tbl) ELSE n)

\* TopFabricantes without the sort
TopFabricantes_Unsorted(rows, cats, obs) ==
  HeadN(GroupBy(rows, "ds_vacina_fabricante", cats, obs), TopN)

\* lines 261-263
TopFabricantes(rows, cats, obs) ==
  HeadN(SortDesc(GroupBy(rows, "ds_vacina_fabricante", cats, obs)), TopN)

\* Series.nunique(): NaN is not counted
NUnique(rows, col) == Cardinality(Unique(rows, col) \ {NaN})

RECURSIVE Groups(_)
\* f"{n:,.0f}": the digits in groups of three
Groups(n) == IF n < 1000 THEN <<n>> ELSE Groups(n \div 1000) \o <<n % 1000>>

\* f"{n / 1_000_000:.2f}": n / 10^6 in hundredths.  A quotient half-way between two
\* hundredths is no exact double: the side it rounds to depends on the double.
Hundredths(n) ==
  LET q == n \div 10000
      r == n % 10000
  IN IF r < 5000 THEN {q} ELSE IF r > 5000 THEN {q + 1} ELSE {q, q + 1}

\* FormatTotal that scales only above one million
FormatTotal_Above(n) ==
  IF n <= Million THEN {[scale |-> "", groups |-> Groups(n)]}
  ELSE {[scale |-> "Mi", groups |-> <<h \div 100, h % 100>>] : h \in Hundredths(n)}

\* line 181: the texts the metric can show for n doses
FormatTotal(n) ==
  IF n < Million THEN {[scale |-> "", groups |-> Groups(n)]}
  ELSE {[scale |-> "Mi", groups |-> <<h \div 100, h % 100>>] : h \in Hundredths(n)}

\* ------------------------------------------------------------ widgets
DataDays == {March1 - 1 + d : d \in 1..MaxDay}

\* st.sidebar.date_input(value=(min, max), min_value=min, max_value=max)
DateInputs(lo, hi) ==
  LET D == {d \in DataDays \cup {lo, hi} : lo <= d /\ d <= hi}
  IN {<<>>} \cup {<<d>> : d \in D} \cup {p \in D \X D : p[1] <= p[2]}

\* st.sidebar.slider(min_value=lo, max_value=hi, value=(lo, hi))
SliderInputs(lo, hi) == {p \in (lo..hi) \X (lo..hi) : p[1] <= p[2]}

\* ---------------------------------------------------------------- Init
NoSel == [d \in Range(Dims) |-> {}]

InitRun ==
  /\ observed = FALSE
  /\ pc = "load"
  /\ outcome = ""
  /\ df = <<>>
  /\ min_date = 0 /\ max_date = 0 /\ warned = FALSE
  /\ date_range = <<>>
  /\ df_filtered = <<>>
  /\ options = NoSel
  /\ selected = NoSel
  /\ idade_range = <<>>
  /\ total_doses = 0 /\ total_estados = 0 /\ total_fabricantes = 0
  /\ metric_total = [scale |-> "", groups |-> <<>>]
  /\ df_uf_doses = <<>> /\ df_raca_doses = <<>>
  /\ df_sexo_doses = <<>> /\ df_fabricante_doses = <<>>

\* Files of at most n rows drawn from Rows, or no file at all.
InitWith(Rows, n) ==
  /\ \/ file_found = TRUE /\ csv \in UNION {[1..k -> Rows] : k \in 0..n}
     \/ file_found = FALSE /\ csv = <<>>
  /\ InitRun

RawRows(D, S, R, U, V, F, I) ==
  [dt_vacina : D, tp_sexo_paciente : S, no_raca_cor_paciente : R,
   sg_uf_estabelecimento : U, ds_vacina : V, ds_vacina_fabricante : F,
   nu_idade_paciente : I]

\* Rows of one day that differ in the four filtered columns.
RowsFiltros == RawRows({1}, {1, 2}, {1, 2}, {1, 2}, {1, 2}, {1}, {<<0>>})
\* Rows with another date, or a text that is no date.
RowsData == RawRows({0, 2}, {1}, {1}, {1}, {1}, {1}, {<<0>>})
\* Rows with a missing cell.
RowsFaltantes ==
  RawRows({1}, {NaN}, {1}, {1}, {1}, {1}, {<<0>>})
   \cup RawRows({1}, {1}, {NaN}, {1}, {1}, {1}, {<<0>>})
   \cup RawRows({1}, {1}, {1}, {NaN}, {1}, {NaN}, {<<0>>})
\* Rows with another age: "02", a text that is no number, an empty cell.
RowsIdade == RawRows({1}, {1}, {1}, {1}, {1}, {2}, {<<0, 2>>, <<Letter>>, <<>>})

Init == InitWith(RowsFiltros \cup RowsData \cup RowsFaltantes \cup RowsIdade, MaxRows)

\* Files whose rows differ in the date (and one row in the age).
RowsSoData ==
  RawRows(0..MaxDay, {1}, {1}, {1}, {1}, {1}, {<<0>>})
   \cup RawRows({1}, {1}, {1}, {1}, {1}, {1}, {<<2>>, <<Letter>>})

InitDate == InitWith(RowsSoData, MaxRowsDate)

\* ------------------------------------------------------------- actions
\* lines 28-37: the file is missing; st.error, st.stop
FileNotFound ==
  /\ pc = "load" /\ ~file_found
  /\ pc' = "stopped" /\ outcome' = "SourceUnavailable"
  /\ UNCHANGED <<file_found, csv, observed, df, min_date, max_date, warned,
                 date_range, df_filtered, options, selected, idade_range,
                 total_doses, total_estados, total_fabricantes, metric_total,
                 df_uf_doses, df_raca_doses, df_sexo_doses, df_fabricante_doses>>

\* lines 27-86
LoadData ==
  /\ pc = "load" /\ file_found
  /\ df' = load_data(csv)
  /\ pc' = "dates"
  /\ UNCHANGED <<file_found, csv, observed, outcome, min_date, max_date, warned,
                 date_range, df_filtered, options, selected, idade_range,
                 total_doses, total_estados, total_fabricantes, metric_total,
                 df_uf_doses, df_raca_doses, df_sexo_doses, df_fabricante_doses>>

\* lines 97-104
DateBounds ==
  /\ pc = "dates"
  /\ IF Len(df) # 0
     THEN /\ min_date' = Date(SetMin({df[i].dt_vacina : i \in DOMAIN df}))
          /\ max_date' = Date(SetMax({df[i].dt_vacina : i \in DOMAIN df}))
          /\ warned' = FALSE
     ELSE /\ min_date' = DefaultMin
          /\ max_date' = DefaultMax
          /\ warned' = TRUE
  /\ pc' = "date_input"
  /\ UNCHANGED <<file_found, csv, observed, outcome, df,
                 date_range, df_filtered, options, selected, idade_range,
                 total_doses, total_estados, total_fabricantes, metric_total,
                 df_uf_doses, df_raca_doses, df_sexo_doses, df_fabricante_doses>>

\* lines 106-119
FiltroData ==
  /\ pc = "date_input"
  /\ \E r \in DateInputs(min_date, max_date) :
       /\ date_range' = r
       /\ df_filtered' = DateFilter(df, r)
  /\ pc' = Dims[1]
  /\ UNCHANGED <<file_found, csv, observed, outcome, df, min_date, max_date, warned,
                 options, selected, idade_range,
                 total_doses, total_estados, total_fabricantes, metric_total,
                 df_uf_doses, df_raca_doses, df_sexo_doses, df_fabricante_doses>>

\* OptionsOf computed over the whole Dataset
OptionsOf_Raw(rows, col) == Unique(df, col)

\* The options a multiselect on column col offers when the frame is rows.
OptionsOf(rows, col) == Unique(rows, col)

\* One multiselect and its filter: lines 123-128, 131-136, 139-144, 147-152
Multiselect(k) ==
  /\ pc = Dims[k]
  /\ \E sel \in SUBSET OptionsOf(df_filtered, Dims[k]) :
       /\ options' = [options EXCEPT ![Dims[k]] = OptionsOf(df_filtered, Dims[k])]
       /\ selected' = [selected EXCEPT ![Dims[k]] = sel]
       /\ df_filtered' = IsIn(df_filtered, Dims[k], sel)
  /\ pc' = IF k < Len(Dims) THEN Dims[k + 1] ELSE "idade"
  /\ UNCHANGED <<file_found, csv, observed, outcome, df, min_date, max_date, warned,
                 date_range, idade_range,
                 total_doses, total_estados, total_fabricantes, metric_total,
                 df_uf_doses, df_raca_doses, df_sexo_doses, df_fabricante_doses>>

FiltroSexo == Multiselect(1)
FiltroRaca == Multiselect(2)
FiltroUF == Multiselect(3)
FiltroVacina == Multiselect(4)

\* lines 156-157 on an empty frame: min() is NaN and int(NaN) raises ValueError
IdadeSemDados ==
  /\ pc = "idade" /\ Len(df_filtered) = 0
  /\ pc' = "failed" /\ outcome' = "ValueError"
  /\ UNCHANGED <<file_found, csv, observed, df, min_date, max_date, warned,
                 date_range, df_filtered, options, selected, idade_range,
                 total_doses, total_estados, total_fabricantes, metric_total,
                 df_uf_doses, df_raca_doses, df_sexo_doses, df_fabricante_doses>>

\* lines 156-164
FiltroIdade ==
  /\ pc = "idade" /\ Len(df_filtered) # 0
  /\ LET min_idade_df == SetMin({df_filtered[i].nu_idade_paciente : i \in DOMAIN df_filtered})
         max_idade_df == SetMax({df_filtered[i].nu_idade_paciente : i \in DOMAIN df_filtered})
     IN \E r \in SliderInputs(min_idade_df, max_idade_df) :
          /\ idade_range' = r
          /\ df_filtered' = IdadeFilter(df_filtered, r)
  /\ pc' = "check"
  /\ UNCHANGED <<file_found, csv, observed, outcome, df, min_date, max_date, warned,
                 date_range, options, selected,
                 total_doses, total_estados, total_fabricantes, metric_total,
                 df_uf_doses, df_raca_doses, df_sexo_doses, df_fabricante_doses>>

\* lines 168-170: st.warning, st.stop
SemDados ==
  /\ pc = "check" /\ Len(df_filtered) = 0
  /\ pc' = "stopped" /\ outcome' = "EmptyResult"
  /\ UNCHANGED <<file_found, csv, observed, df, min_date, max_date, warned,
                 date_range, df_filtered, options, selected, idade_range,
                 total_doses, total_estados, total_fabricantes, metric_total,
                 df_uf_doses, df_raca_doses, df_sexo_doses, df_fabricante_doses>>

\* lines 168, 174-176
Kpis ==
  /\ pc = "check" /\ Len(df_filtered) # 0
  /\ total_doses' = Len(df_filtered)
  /\ total_estados' = NUnique(df_filtered, "sg_uf_estabelecimento")
  /\ total_fabricantes' = NUnique(df_filtered, "ds_vacina_fabricante")
  /\ pc' = "metric"
  /\ UNCHANGED <<file_found, csv, observed, outcome, df, min_date, max_date, warned,
                 date_range, df_filtered, options, selected, idade_range, metric_total,
                 df_uf_doses, df_raca_doses, df_sexo_doses, df_fabricante_doses>>

\* line 181
MetricTotal ==
  /\ pc = "metric"
  /\ metric_total' \in FormatTotal(total_doses)
  /\ pc' = "row1"
  /\ UNCHANGED <<file_found, csv, observed, outcome, df, min_date, max_date, warned,
                 date_range, df_filtered, options, selected, idade_range,
                 total_doses, total_estados, total_fabricantes,
                 df_uf_doses, df_raca_doses, df_sexo_doses, df_fabricante_doses>>

\* lines 195-197
ChartUF ==
  /\ pc = "row1"
  /\ observed' \in BOOLEAN
  /\ df_uf_doses' = SortDesc(GroupBy(df_filtered, "sg_uf_estabelecimento",
                                     Categories(df, "sg_uf_estabelecimento"), observed'))
  /\ pc' = "row2_col1"
  /\ UNCHANGED <<file_found, csv, outcome, df, min_date, max_date, warned,
                 date_range, df_filtered, options, selected, idade_range,
                 total_doses, total_estados, total_fabricantes, metric_total,
                 df_raca_doses, df_sexo_doses, df_fabricante_doses>>

\* line 235
ChartRaca ==
  /\ pc = "row2_col1"
  /\ df_raca_doses' = GroupBy(df_filtered, "no_raca_cor_paciente",
                              Categories(df, "no_raca_cor_paciente"), observed)
  /\ pc' = "row2_col2"
  /\ UNCHANGED <<file_found, csv, observed, outcome, df, min_date, max_date, warned,
                 date_range, df_filtered, options, selected, idade_range,
                 total_doses, total_estados, total_fabricantes, metric_total,
                 df_uf_doses, df_sexo_doses, df_fabricante_doses>>

\* line 248
ChartSexo ==
  /\ pc = "row2_col2"
  /\ df_sexo_doses' = GroupBy(df_filtered, "tp_sexo_paciente",
                              Categories(df, "tp_sexo_paciente"), observed)
  /\ pc' = "row2_col3"
  /\ UNCHANGED <<file_found, csv, observed, outcome, df, min_date, max_date, warned,
                 date_range, df_filtered, options, selected, idade_range,
                 total_doses, total_estados, total_fabricantes, metric_total,
                 df_uf_doses, df_raca_doses, df_fabricante_doses>>

\* lines 261-263, and the end of the script
ChartFabricante ==
  /\ pc = "row2_col3"
  /\ df_fabricante_doses' = TopFabricantes(df_filtered,
                                           Categories(df, "ds_vacina_fabricante"), observed)
  /\ pc' = "done" /\ outcome' = "Rendered"
  /\ UNCHANGED <<file_found, csv, observed, df, min_date, max_date, warned,
                 date_range, df_filtered, options, selected, idade_range,
                 total_doses, total_estados, total_fabricantes, metric_total,
                 df_uf_doses, df_raca_doses, df_sexo_doses>>

Next ==
  \/ FileNotFound \/ LoadData \/ DateBounds \/ FiltroData
  \/ FiltroSexo \/ FiltroRaca \/ FiltroUF \/ FiltroVacina
  \/ IdadeSemDados \/ FiltroIdade \/ SemDados \/ Kpis \/ MetricTotal
  \/ ChartUF \/ ChartRaca \/ ChartSexo \/ ChartFabricante

Spec == Init /\ [][Next]_vars

SpecDate == InitDate /\ [][Next]_vars

\* ------------------------------------------- the manufacturers' chart
RECURSIVE FabFile(_, _)
\* A file with cnt[f] rows of manufacturer f, for f = from..NFab.
FabFile(cnt, from) ==
  IF from > NFab THEN <<>>
  ELSE [i \in 1..cnt[from] |->
          [dt_vacina |-> 1, tp_sexo_paciente |-> 1, no_raca_cor_paciente |-> 1,
           sg_uf_estabelecimento |-> 1, ds_vacina |-> 1,
           ds_vacina_fabricante |-> from, nu_idade_paciente |-> <<0>>]]
       \o FabFile(cnt, from + 1)

\* Rows per manufacturer: up to MaxPerFab for the first two and the last one, at
\* most one for the others.
FabCounts ==
  {cnt \in [1..NFab -> 0..MaxPerFab] : \A f \in 3..(NFab - 1) : cnt[f] <= 1}

\* The script in front of the last chart, nothing deselected, for a file of up to
\* NFab manufacturers.
InitTop ==
  /\ file_found = TRUE
  /\ csv \in {FabFile(cnt, 1) : cnt \in FabCounts} \ {<<>>}
  /\ observed \in BOOLEAN
  /\ pc = "row2_col3"
  /\ outcome = ""
  /\ df = load_data(csv)
  /\ min_date = March1 /\ max_date = March1 /\ warned = FALSE
  /\ date_range = <<March1, March1>>
  /\ df_filtered = df
  /\ options = [d \in Range(Dims) |-> OptionsOf(df, d)]
  /\ selected = options
  /\ idade_range = <<0, 0>>
  /\ total_doses = Len(df)
  /\ total_estados = NUnique(df, "sg_uf_estabelecimento")
  /\ total_fabricantes = NUnique(df, "ds_vacina_fabricante")
  /\ metric_total = [scale |-> "", groups |-> Groups(Len(df))]
  /\ df_uf_doses = SortDesc(GroupBy(df, "sg_uf_estabelecimento",
                                    Categories(df, "sg_uf_estabelecimento"), observed))
  /\ df_raca_doses = GroupBy(df, "no_raca_cor_paciente",
                             Categories(df, "no_raca_cor_paciente"), observed)
  /\ df_sexo_doses = GroupBy(df, "tp_sexo_paciente",
                             Categories(df, "tp_sexo_paciente"), observed)
  /\ df_fabricante_doses = <<>>

NextTop == ChartFabricante

SpecTop == InitTop /\ [][NextTop]_vars

\* ------------------------------------------------- the total's metric
FmtInputs ==
  (1..FmtSpan) \cup {999, 1000, 1001, 12345}
   \cup ((Million - FmtSpan)..(Million + FmtSpan))
   \cup {1004999, 1005000, 1005001, 1200000, 1234567, 2500000}

\* The script in front of line 181 with total_doses doses counted.  The frame is
\* left out: the line reads total_doses only.
InitFmt ==
  /\ file_found = TRUE /\ csv = <<>>
  /\ observed = FALSE
  /\ pc = "metric"
  /\ outcome = ""
  /\ df = <<>>
  /\ min_date = 0 /\ max_date = 0 /\ warned = FALSE
  /\ date_range = <<>>
  /\ df_filtered = <<>>
  /\ options = NoSel /\ selected = NoSel
  /\ idade_range = <<>>
  /\ total_doses \in FmtInputs
  /\ total_estados = 0 /\ total_fabricantes = 0
  /\ metric_total = [scale |-> "", groups |-> <<>>]
  /\ df_uf_doses = <<>> /\ df_raca_doses = <<>>
  /\ df_sexo_doses = <<>> /\ df_fabricante_doses = <<>>

NextFmt == MetricTotal

SpecFmt == InitFmt /\ [][NextFmt]_vars

\* ------------------------------------------- the cascade as a function
RECURSIVE View(_, _, _)
\* The frame that enters stage k (1..4 the multiselects of Dims, 5 the age slider)
\* when the date selection is r and the multiselects return sel: lines 113-152.
View(k, r, sel) ==
  IF k = 1 THEN DateFilter(df, r)
  ELSE IsIn(View(k - 1, r, sel), Dims[k - 1], sel[Dims[k - 1]])

\* The options of the k-th multiselect under these selections.
optionsFor(k, r, sel) == OptionsOf(View(k, r, sel), Dims[k])

\* ============================================================== claims
Stages == 1..Len(Dims)

\* The run got past the multiselect of Dims[k].
Ran(k) ==
  /\ outcome # "SourceUnavailable"
  /\ pc \notin {"load", "dates", "date_input"} \cup {Dims[j] : j \in 1..k}

Ended == pc \in {"stopped", "failed", "done"}

\* What the file says about a row of the frame.
RawDay(row) == March1 - 1 + csv[row.index].dt_vacina
RawAge(row) == csv[row.index].nu_idade_paciente
NoNumber(text) == \E i \in DOMAIN text : text[i] \notin 0..9

PassesDate(row) ==
  Len(date_range) = 2 => date_range[1] <= RawDay(row) /\ RawDay(row) <= date_range[2]

\* The row satisfies the date selection and the selections of the multiselects
\* before the k-th.
PassesBefore(row, k) ==
  /\ PassesDate(row)
  /\ \A j \in 1..(k - 1) : row[Dims[j]] \in selected[Dims[j]]

Upstream(k) == {row \in Range(df) : PassesBefore(row, k)}

RECURSIVE SumOf(_)
\* The sum of the doses of a table.
SumOf(tbl) == IF Len(tbl) = 0 THEN 0 ELSE tbl[1].Dose + SumOf(Tail(tbl))

\* C1: whenever the selection of a multiselect was set to the empty set (it had
\* options to select), whatever the other selections, the run ends with the "no
\* data" warning and st.stop (EmptyResult), never in another way.
C1_EmptySelectionStops ==
  (Ended /\ Ran(Len(Dims))
     /\ \E k \in Stages : selected[Dims[k]] = {} /\ options[Dims[k]] # {})
    => outcome = "EmptyResult"

\* C2: when the charts are drawn, the total of doses equals the sum of the doses by
\* state, by race and by sex.
C2_SumInvariant ==
  pc = "done" =>
    /\ total_doses = Len(df_filtered)
    /\ SumOf(df_uf_doses) = total_doses
    /\ SumOf(df_raca_doses) = total_doses
    /\ SumOf(df_sexo_doses) = total_doses

\* C3: the stages run in the order date, sex, race, state, vaccine, age; the frame
\* that enters a stage holds the rows of the Dataset that satisfy every selection
\* before it, and the options of a multiselect are the values of its column in
\* that frame.
C3_CascadeOptions ==
  /\ \A k \in Stages : pc = Dims[k] => Range(df_filtered) = Upstream(k)
  /\ pc = "idade" => Range(df_filtered) = Upstream(Len(Dims) + 1)
  /\ \A k \in Stages :
       Ran(k) => options[Dims[k]] = {row[Dims[k]] : row \in Upstream(k)}

C3_Witness ==
  /\ pc = "idade"
  /\ \E k \in Stages : selected[Dims[k]] # {} /\ selected[Dims[k]] # options[Dims[k]]
  /\ \E k \in Stages : options[Dims[k]] # {} /\ options[Dims[k]] # Unique(df, Dims[k])

\* The date selections that narrow r: the sub-intervals of a two-ended interval.
NarrowerDates(r) ==
  IF Len(r) = 2
  THEN {q \in DateInputs(min_date, max_date) : Len(q) = 2 /\ r[1] <= q[1] /\ q[2] <= r[2]}
  ELSE {r}

\* The selections that narrow the ones made before the last multiselect.
NarrowerSelections ==
  {[selected EXCEPT ![Dims[1]] = t[1], ![Dims[2]] = t[2], ![Dims[3]] = t[3]] :
     t \in (SUBSET selected[Dims[1]]) \X (SUBSET selected[Dims[2]])
             \X (SUBSET selected[Dims[3]])}

\* C4: the options of every multiselect are values of its column in the Dataset,
\* and under narrower selections in the stages before it (a sub-interval of the
\* dates, subsets of the selections) its options are a subset of the present ones.
C4_CascadeNarrowing ==
  pc = "idade" =>
    \A k \in Stages :
      /\ options[Dims[k]] \subseteq Unique(df, Dims[k])
      /\ \A q \in NarrowerDates(date_range), sel \in NarrowerSelections :
           optionsFor(k, q, sel) \subseteq options[Dims[k]]

C4_Witness ==
  /\ pc = "idade"
  /\ Len(date_range) = 2
  /\ \E k \in Stages, q \in NarrowerDates(date_range), sel \in NarrowerSelections :
       /\ q # date_range /\ sel # selected
       /\ optionsFor(k, q, sel) # {}
       /\ optionsFor(k, q, sel) # options[Dims[k]]

\* Rows of the filtered frame of manufacturer m.
DosesOf(m) ==
  Cardinality({i \in DOMAIN df_filtered : df_filtered[i].ds_vacina_fabricante = m})

TopKeys == {df_fabricante_doses[i].key : i \in DOMAIN df_fabricante_doses}

\* C5: the manufacturers' table has at most 10 entries, each with the doses of its
\* manufacturer, in descending order of doses, and no manufacturer left out has
\* more doses than one that is in.
C5_Top10 ==
  pc = "done" =>
    /\ Len(df_fabricante_doses) <= 10
    /\ \A i, j \in DOMAIN df_fabricante_doses :
         /\ i < j => df_fabricante_doses[i].Dose >= df_fabricante_doses[j].Dose
         /\ i # j => df_fabricante_doses[i].key # df_fabricante_doses[j].key
    /\ \A i \in DOMAIN df_fabricante_doses :
         /\ df_fabricante_doses[i].Dose = DosesOf(df_fabricante_doses[i].key)
         /\ \A m \in (Unique(df_filtered, "ds_vacina_fabricante") \ {NaN}) \ TopKeys :
              df_fabricante_doses[i].Dose >= DosesOf(m)

C5_Witness ==
  /\ pc = "done"
  /\ Len(df_fabricante_doses) = 10
  /\ df_fabricante_doses[1].Dose > df_fabricante_doses[10].Dose
  /\ \E m \in Unique(df_filtered, "ds_vacina_fabricante") \ TopKeys : DosesOf(m) > 0

\* C6: with a two-ended date selection the date stage keeps exactly the rows whose
\* date d has start_date <= d <= end_date, both ends included.
C6_DateInclusive ==
  (pc = Dims[1] /\ Len(date_range) = 2) =>
    /\ Range(df_filtered) =
         {row \in Range(df) : date_range[1] <= RawDay(row) /\ RawDay(row) <= date_range[2]}
    /\ Len(df_filtered) = Cardinality(Range(df_filtered))

\* Rows of three dates two days apart, the selection from the day after the first
\* to the day before the last: only the middle row is kept.
C6_Witness ==
  /\ pc = Dims[1]
  /\ Len(csv) = 3 /\ Len(df) = 3
  /\ RawDay(df[1]) + 2 = RawDay(df[2]) /\ RawDay(df[2]) + 2 = RawDay(df[3])
  /\ date_range = <<RawDay(df[1]) + 1, RawDay(df[3]) - 1>>
  /\ df_filtered = <<df[2]>>

\* C7: a row of the file with a valid date and an age text that is no number is in
\* the Dataset with age 0, and an age selection of (0, 0) keeps it when it passed
\* the stages before.
C7_AgeCoercion ==
  /\ (pc # "load" /\ file_found) =>
       \A i \in DOMAIN csv :
         (csv[i].dt_vacina \in 1..31 /\ NoNumber(csv[i].nu_idade_paciente))
           => \E j \in DOMAIN df : df[j].index = i /\ df[j].nu_idade_paciente = 0
  /\ (Ran(Len(Dims)) /\ pc # "idade" /\ idade_range = <<0, 0>>) =>
       \A row \in Upstream(Len(Dims) + 1) :
         NoNumber(RawAge(row)) => row \in Range(df_filtered)

C7_Witness ==
  /\ pc = "check" /\ idade_range = <<0, 0>>
  /\ \E row \in Range(df_filtered) : NoNumber(RawAge(row))
  /\ \E row \in Upstream(Len(Dims) + 1) : row \notin Range(df_filtered)

Shown == pc = "row1"

\* C8 as stated: the total is shown scaled ("Mi") only when it exceeds one million.
C8_ScaledOnlyAbove ==
  Shown =>
    /\ metric_total.scale = "Mi" => total_doses > 1000000
    /\ total_doses < 1000000 => metric_total.scale = ""

\* C8 as amended: the total is shown scaled (divided by one million, rounded to two
\* decimals, labelled "Mi") when it is one million or more, and as the integer count,
\* its digits in groups of three, when it is below; 999,999 is shown as 999,999 and
\* 1,200,000 as 1.20 Mi.
C8_ScaledFromMillion ==
  Shown =>
    /\ metric_total.scale = "Mi" <=> total_doses >= 1000000
    /\ metric_total.scale = "" <=> total_doses < 1000000
    /\ metric_total.scale = "Mi" =>
         LET h == 100 * metric_total.groups[1] + metric_total.groups[2]
         IN /\ Len(metric_total.groups) = 2 /\ metric_total.groups[2] \in 0..99
            /\ 2 * h * 10000 - 10000 <= 2 * total_doses
            /\ 2 * total_doses <= 2 * h * 10000 + 10000
    /\ metric_total.scale = "" =>
         LET g == metric_total.groups
         IN /\ \A i \in 2..Len(g) : g[i] \in 0..999
            /\ g[1] \in 0..999
            /\ total_doses = IF Len(g) = 1 THEN g[1] ELSE 1000 * g[1] + g[2]
    /\ total_doses = 999999 => metric_total = [scale |-> "", groups |-> <<999, 999>>]
    /\ total_doses = 1200000 => metric_total = [scale |-> "Mi", groups |-> <<1, 20>>]

C8_Witness ==
  Shown /\ total_doses = 1000000 /\ metric_total = [scale |-> "Mi", groups |-> <<1, 0>>]

\* C9: when the file is read and every one of its rows is dropped for its date, the
\* load is no error, the date limits are the default interval 2024-01-01 to
\* 2025-12-31 and the run ends with EmptyResult.
C9_EmptyDataset ==
  (file_found /\ pc # "load" /\ Len(csv) > 0 /\ Len(df) = 0) =>
    /\ outcome # "SourceUnavailable"
    /\ pc # "dates" => (min_date = 1 /\ max_date = 731 /\ warned)
    /\ Ended => outcome = "EmptyResult"

\* C10: when the date selection is not a pair of dates, the date stage keeps every
\* row: the frame that enters the sex stage is the whole Dataset.
C10_SingleDateNoFilter ==
  (pc = Dims[1] /\ Len(date_range) # 2) => df_filtered = df

C10_Witness ==
  /\ pc = Dims[1] /\ Len(date_range) = 1
  /\ \E row \in Range(df_filtered) : RawDay(row) < date_range[1]
  /\ \E row \in Range(df_filtered) : RawDay(row) > date_range[1]

====
